---- MODULE Spec2Model ----
(***************************************************************************)
(* vibe-mcp-client: the conversation orchestrator (controller.py), the     *)
(* tool session manager (mcp_handler.py) and the completion client         *)
(* (llm_handler.py), run by one asyncio event loop (main.py).              *)
(*                                                                         *)
(* The event loop is a FIFO queue of handles (ready).  The handle at the   *)
(* head of the queue is the callback that is executing; what it schedules  *)
(* with call_soon/create_task goes to the tail.  A coroutine that suspends *)
(* in an await leaves the queue until its future is resolved (a timer, an  *)
(* I/O event, the completion of the task it awaits, a cancellation).       *)
(***************************************************************************)
EXTENDS Naturals, Sequences, FiniteSets, TLC

\* ---------------------------------------------------------------- bounds
\* Connect clicks: every accepted connect() creates one lifecycle task.
MaxConnects == 3
\* Disconnect clicks: every click creates one disconnect() coroutine.
MaxDisconnects == 2

\* Tool calls one response carries at most.
MaxCalls == 2
\* Spec, one short turn: settings dialogs applied, tool calls requested over
\* all responses, tool calls that fail (undecodable arguments, a failing
\* session call).
MaxConfigs == 1
MaxToolCalls == 2
MaxToolFaults == 1
\* SpecCeiling, one turn through all its iterations: tool calls requested
\* over all responses.
CeilingToolCalls == 6
\* SpecRace, overlapping turns: messages sent (each accepted one starts a turn
\* task), tool calls requested over all responses.
RaceSends == 2
RaceToolCalls == 2
\* SpecTools: List Tools clicks, tool calls requested over all responses.
MaxLists == 1
ToolsToolCalls == 2
\* SpecLive: Connect and Disconnect clicks.
LiveConnects == 2
LiveDisconnects == 1

\* The safety limit of line 166 of controller.py.
max_iterations == 5

None == 0

Tasks == 1..MaxConnects
Discs == 1..MaxDisconnects
Turns == 1..RaceSends
Listers == 1..MaxLists

VARIABLES
    session,          \* MCPHandler.session: None, or t for the session task t made
    connection_task,  \* MCPHandler._connection_task: None, or a lifecycle task
    task,             \* the lifecycle tasks (asyncio.Task of _mcp_session_runner)
    disc,             \* the disconnect() coroutines
    ready,            \* the event loop's ready queue
    clicks,           \* UI events handled so far, per button
    out,              \* what the last step emitted to the presentation boundary
    messages,         \* AppController.messages, the conversation history
    llm,              \* LLMHandler.llm is not None
    turn,             \* the turn tasks (asyncio.Task of _process_llm_interaction)
    lister,           \* the list_tools(log=True) tasks of the List Tools button
    env,              \* what the environment did so far: tool-call faults, tool calls requested
    budget            \* how many UI events and faults this specification allows

vars == <<session, connection_task, task, disc, ready, clicks, out,
          messages, llm, turn, lister, env, budget>>

\* The orchestrator's and the completion client's state, and the budget.
ctl == <<messages, llm, turn, lister, env, budget>>

\* ---------------------------------------------------------------- helpers
H(k, i) == [k |-> k, id |-> i]

TkHandle == H("tk", 0)

Running(h) == ready # <<>> /\ Head(ready) = h

Queued(h) == \E i \in DOMAIN ready : ready[i] = h

\* emitOutput(text, role) / emitStatus(text), abbreviated
Sys(text) == <<"system", text>>
Status(text) == <<"status", text>>

\* The emissions of a step; a specification that asks about none keeps none.
Emit(log) == IF budget.log THEN log ELSE <<>>

Count(s, e) == Cardinality({i \in DOMAIN s : s[i] = e})

\* asyncio.Task.done()
done(t) == task[t].pc = "done"

\* A created task that has not finished.
Alive(t) == task[t].pc \notin {"none", "done"}

\* is_connected without the check of the lifecycle task.
is_connected_session_only == session # None

\* MCPHandler.is_connected
is_connected ==
    /\ session # None
    /\ connection_task # None
    /\ ~done(connection_task)

\* The callbacks a finished lifecycle task schedules, in the order they were
\* added: connect()'s done-callback first, then the disconnect() coroutines
\* that await the task (in the order they started to wait).
DoneCallbacks(t) ==
    LET waits(d) == disc[d].pc = "await" /\ disc[d].on = t
        ids == SelectSeq([d \in Discs |-> d], waits)
    IN <<H("hc", t)>> \o [i \in DOMAIN ids |-> H("disc", ids[i])]

\* asyncio.Task.cancel(): the CancelledError is thrown into the coroutine at
\* its next step; a suspended task is rescheduled for it.
Cancelled(t) == [task EXCEPT ![t].cancel = TRUE]

\* A cancel() after which the caller does not wait for the task's end: the
\* running coroutine is rescheduled together with the cancelled task.
CancelWake_caller_goes_on(t) ==
    (IF Queued(H("run", t)) THEN <<>> ELSE <<H("run", t)>>) \o <<Head(ready)>>

CancelWake(t) == IF Queued(H("run", t)) THEN <<>> ELSE <<H("run", t)>>

\* ------------------------------------------------ the lifecycle task's steps
\* The task was cancelled before its first step: the coroutine's body, its
\* finally clause included, never runs.
runner_cancelled_before_start(t) ==
    /\ Running(H("run", t))
    /\ task[t].pc = "new" /\ task[t].cancel
    /\ task' = [task EXCEPT ![t].pc = "done", ![t].res = "cancelled",
                            ![t].cancel = FALSE]
    /\ ready' = Tail(ready) \o DoneCallbacks(t)
    /\ out' = Emit(<<>>)
    /\ UNCHANGED <<session, connection_task, disc, clicks, ctl>>

\* First step: log, build the launch parameters, enter stdio_client (await).
runner_start(t) ==
    /\ Running(H("run", t))
    /\ task[t].pc = "new" /\ ~task[t].cancel
    /\ task' = [task EXCEPT ![t].pc = "spawn"]
    /\ ready' = Tail(ready)
    /\ out' = Emit(<<Sys("Attempting to start MCP server"), Sys("Executing command")>>)
    /\ UNCHANGED <<session, connection_task, disc, clicks, ctl>>

\* "Connected" reported when the session is created, before the handshake.
runner_transport_ready_reports_connected(t) ==
    /\ Running(H("run", t))
    /\ task[t].pc = "spawn" /\ ~task[t].cancel /\ task[t].wake = "ok"
    /\ session' = t
    /\ task' = [task EXCEPT ![t].pc = "handshake", ![t].wake = "none"]
    /\ ready' = Tail(ready)
    /\ out' = Emit(<<Sys("MCP transport initialized."), Sys("MCP session created."),
                Status("Connected")>>)
    /\ UNCHANGED <<connection_task, disc, clicks, ctl>>

\* stdio_client entered: create the ClientSession, publish it in self.session,
\* then await session.initialize().
runner_transport_ready(t) ==
    /\ Running(H("run", t))
    /\ task[t].pc = "spawn" /\ ~task[t].cancel /\ task[t].wake = "ok"
    /\ session' = t
    /\ task' = [task EXCEPT ![t].pc = "handshake", ![t].wake = "none"]
    /\ ready' = Tail(ready)
    /\ out' = Emit(<<Sys("MCP transport initialized."), Sys("MCP session created.")>>)
    /\ UNCHANGED <<connection_task, disc, clicks, ctl>>

\* session.initialize() returned: report "Connected" and idle in sleep(1).
runner_initialized(t) ==
    /\ Running(H("run", t))
    /\ task[t].pc = "handshake" /\ ~task[t].cancel /\ task[t].wake = "ok"
    /\ task' = [task EXCEPT ![t].pc = "idle", ![t].wake = "none"]
    /\ ready' = Tail(ready)
    /\ out' = Emit(<<Sys("MCP session initialized successfully."), Status("Connected")>>)
    /\ UNCHANGED <<session, connection_task, disc, clicks, ctl>>

\* sleep(1) returned: while True, sleep again.
runner_idle(t) ==
    /\ Running(H("run", t))
    /\ task[t].pc = "idle" /\ ~task[t].cancel /\ task[t].wake = "ok"
    /\ task' = [task EXCEPT ![t].wake = "none"]
    /\ ready' = Tail(ready)
    /\ out' = Emit(<<>>)
    /\ UNCHANGED <<session, connection_task, disc, clicks, ctl>>

\* What the except clauses log for an exception (CancelledError is no
\* Exception: no except clause takes it).
ExceptLog(res) == IF res = "cancelled" THEN <<>> ELSE <<Sys("MCP connection error")>>

\* A cleanup of the lifecycle task that also resets the conversation.
runner_finally_resets_history(t, res) ==
    /\ session' = None
    /\ connection_task' = None
    /\ task' = [task EXCEPT ![t].pc = "done", ![t].res = res, ![t].cancel = FALSE,
                            ![t].wake = "none", ![t].emits = @ + 1]
    /\ ready' = Tail(ready) \o DoneCallbacks(t)
    /\ out' = Emit(ExceptLog(res) \o <<Sys("MCP connection closed."), Status("Disconnected")>>)
    /\ messages' = SubSeq(messages, 1, 1)
    /\ UNCHANGED <<disc, clicks, llm, turn, lister, env, budget>>

\* The finally clause of _mcp_session_runner, the end of the task.
runner_finally(t, res) ==
    /\ session' = None
    /\ connection_task' = None
    /\ task' = [task EXCEPT ![t].pc = "done", ![t].res = res, ![t].cancel = FALSE,
                            ![t].wake = "none", ![t].emits = @ + 1]
    /\ ready' = Tail(ready) \o DoneCallbacks(t)
    /\ out' = Emit(ExceptLog(res) \o <<Sys("MCP connection closed."), Status("Disconnected")>>)
    /\ UNCHANGED <<disc, clicks, ctl>>

\* An exception or a cancellation reaches the coroutine.
Raised(t) == task[t].cancel \/ task[t].wake = "err"

Outcome(t) == IF task[t].cancel THEN "cancelled" ELSE "normal"

\* Raised while entering stdio_client (FileNotFoundError, ...): no context
\* manager is open yet, the except/finally clauses run at once.
runner_spawn_failed(t) ==
    /\ Running(H("run", t))
    /\ task[t].pc = "spawn" /\ Raised(t)
    /\ runner_finally(t, Outcome(t))

\* Raised inside the two async with blocks (handshake failure, transport
\* closure, I/O error, cancellation): their __aexit__ run first.  They are
\* awaited, so the task either gets through them in this step or suspends
\* in them.
runner_raised_exit_now(t) ==
    /\ Running(H("run", t))
    /\ task[t].pc \in {"handshake", "idle"} /\ Raised(t)
    /\ runner_finally(t, Outcome(t))

runner_raised_exit_suspends(t) ==
    /\ Running(H("run", t))
    /\ task[t].pc \in {"handshake", "idle"} /\ Raised(t)
    /\ task' = [task EXCEPT ![t].pc = "closing", ![t].res = Outcome(t),
                            ![t].cancel = FALSE, ![t].wake = "none"]
    /\ ready' = Tail(ready)
    /\ out' = Emit(<<>>)
    /\ UNCHANGED <<session, connection_task, disc, clicks, ctl>>

\* The context managers' exit finished (or was cancelled in turn).
runner_closed(t) ==
    /\ Running(H("run", t))
    /\ task[t].pc = "closing"
    /\ runner_finally(t, IF task[t].cancel THEN "cancelled" ELSE task[t].res)

\* MCPHandler._mcp_session_runner
mcp_session_runner(t) ==
    \/ runner_cancelled_before_start(t)
    \/ runner_start(t)
    \/ runner_transport_ready(t)
    \/ runner_initialized(t)
    \/ runner_idle(t)
    \/ runner_spawn_failed(t)
    \/ runner_raised_exit_now(t)
    \/ runner_raised_exit_suspends(t)
    \/ runner_closed(t)

\* The future a suspended lifecycle task waits for is resolved: the
\* subprocess was spawned, the handshake answered, the sleep timer fired, the
\* transport was torn down ("ok"); or the awaited operation failed ("err").
io_event(t, r) ==
    /\ task[t].pc \in {"spawn", "handshake", "idle", "closing"}
    /\ ~Queued(H("run", t))
    /\ task[t].pc = "closing" => r = "ok"
    /\ task' = [task EXCEPT ![t].wake = r]
    /\ ready' = Append(ready, H("run", t))
    /\ out' = Emit(<<>>)
    /\ UNCHANGED <<session, connection_task, disc, clicks, ctl>>

\* ------------------------------------------------------------ connect
\* The guard of connect() without the check of the registered task.
connect_rejects_connected_only == is_connected

\* The guard of connect(): Task objects are truthy.
connect_rejects == is_connected \/ connection_task # None

NewTask == [pc |-> "new", cancel |-> FALSE, wake |-> "none", res |-> "none",
            emits |-> 0]

FreshTask == CHOOSE t \in Tasks : task[t].pc = "none" /\
                 \A s \in Tasks : s < t => task[s].pc # "none"

\* MCPHandler.connect: a coroutine without an await, one step.
connect(c) ==
    /\ Running(H("conn", c))
    /\ IF connect_rejects
       THEN /\ out' = Emit(<<Sys("Already connected or connection attempt in progress.")>>)
            /\ ready' = Tail(ready)
            /\ UNCHANGED <<session, connection_task, task, disc, clicks, ctl>>
       ELSE /\ connection_task' = FreshTask
            /\ task' = [task EXCEPT ![FreshTask] = NewTask]
            /\ ready' = Append(Tail(ready), H("run", FreshTask))
            /\ out' = Emit(<<Status("Connecting...")>>)
            /\ UNCHANGED <<session, disc, clicks, ctl>>

\* MCPHandler._handle_connection_task_completion, the done-callback.
handle_connection_task_completion(t) ==
    /\ Running(H("hc", t))
    /\ session' = None
    /\ connection_task' = None
    /\ task' = [task EXCEPT ![t].emits = @ + 1]
    /\ ready' = Tail(ready)
    /\ out' = Emit(<<Sys(IF task[t].res = "cancelled"
                    THEN "MCP connection task was cancelled."
                    ELSE "MCP connection task finished normally."),
                Status("Disconnected")>>)
    /\ UNCHANGED <<disc, clicks, ctl>>

\* ------------------------------------------------------------ disconnect
\* Lines 136-144 of disconnect(): the session shutdown check, then the
\* unconditional reset.  ClientSession is not part of this repository:
\* reading session.is_closed either yields a value or raises AttributeError,
\* which ends the coroutine before the reset.
disconnect_tail(d, t, log, closedAttr) ==
    IF session # None /\ closedAttr = "raises"
    THEN /\ disc' = [disc EXCEPT ![d].pc = "failed"]
         /\ ready' = Tail(ready)
         /\ out' = Emit(log)
         /\ UNCHANGED <<session, connection_task, task, clicks, ctl>>
    ELSE /\ session' = None
         /\ connection_task' = None
         /\ disc' = [disc EXCEPT ![d].pc = "done", ![d].emits = @ + 1]
         /\ task' = IF t = None THEN task ELSE [task EXCEPT ![t].emits = @ + 1]
         /\ ready' = Tail(ready)
         /\ out' = Emit(log \o <<Status("Disconnected")>>)
         /\ UNCHANGED <<clicks, ctl>>

\* The guard of disconnect(): a lifecycle task is registered and not done.
disconnect_cancels == connection_task # None /\ ~done(connection_task)

\* First step with a running task: cancel it and await it.
disconnect_cancel(d) ==
    /\ Running(H("disc", d))
    /\ disc[d].pc = "new"
    /\ disconnect_cancels
    /\ task' = Cancelled(connection_task)
    /\ disc' = [disc EXCEPT ![d].pc = "await", ![d].on = connection_task,
                            ![d].at = task[connection_task].pc]
    /\ ready' = Tail(ready) \o CancelWake(connection_task)
    /\ out' = Emit(<<>>)
    /\ UNCHANGED <<session, connection_task, clicks, ctl>>

\* First step without a running task: straight to the reset.
disconnect_idle(d) ==
    /\ Running(H("disc", d))
    /\ disc[d].pc = "new"
    /\ ~disconnect_cancels
    /\ \E closedAttr \in {"value", "raises"} :
           disconnect_tail(d, None, <<>>, closedAttr)

\* The awaited task is done: swallow its CancelledError, then the reset.
disconnect_resume(d) ==
    /\ Running(H("disc", d))
    /\ disc[d].pc = "await"
    /\ \E closedAttr \in {"value", "raises"} :
           disconnect_tail(d, disc[d].on,
                           IF task[disc[d].on].res = "cancelled"
                           THEN <<Sys("MCP connection cancelled.")>> ELSE <<>>,
                           closedAttr)

\* MCPHandler.disconnect
disconnect(d) ==
    \/ disconnect_cancel(d)
    \/ disconnect_idle(d)
    \/ disconnect_resume(d)

\* ------------------------------------------------------------ the UI
\* async_tkinter_loop: root.update() runs the handlers of the pending UI
\* events, then the loop task sleeps for 30 ms.
ClicksLeft == \E button \in DOMAIN clicks : clicks[button] < budget[button]

\* AppController.connect_mcp
connect_mcp(script) ==
    /\ Running(TkHandle)
    /\ clicks.connect < budget.connect
    /\ clicks' = [clicks EXCEPT !.connect = IF script = "" THEN @ ELSE @ + 1]
    /\ IF script = ""
       THEN /\ out' = Emit(<<Sys("Please specify the MCP server script path.")>>)
            /\ UNCHANGED ready
       ELSE /\ out' = Emit(<<>>)
            /\ ready' = Append(ready, H("conn", clicks.connect + 1))
    /\ UNCHANGED <<session, connection_task, task, disc, ctl>>

\* AppController.disconnect_mcp
disconnect_mcp ==
    /\ Running(TkHandle)
    /\ clicks.disconnect < budget.disconnect
    /\ clicks' = [clicks EXCEPT !.disconnect = @ + 1]
    /\ disc' = [disc EXCEPT ![clicks.disconnect + 1].pc = "new"]
    /\ ready' = Append(ready, H("disc", clicks.disconnect + 1))
    /\ out' = Emit(<<>>)
    /\ UNCHANGED <<session, connection_task, task, ctl>>

\* root.update() returned: await asyncio.sleep(0.03)
tk_sleep ==
    /\ Running(TkHandle)
    /\ ready' = Tail(ready)
    /\ out' = Emit(<<>>)
    /\ UNCHANGED <<session, connection_task, task, disc, clicks, ctl>>

\* The 30 ms timer fired.  (Once no UI event is left to handle, further
\* rounds of the UI loop change nothing and are left out.)
tk_timer ==
    /\ ~Queued(TkHandle)
    /\ ClicksLeft
    /\ ready' = Append(ready, TkHandle)
    /\ out' = Emit(<<>>)
    /\ UNCHANGED <<session, connection_task, task, disc, clicks, ctl>>

\* ------------------------------------------------------------ history
\* A ConversationMessage.  A tool-call request made in iteration it of turn u
\* has the id <<u, it, k>>, k its place in the response; an assistant message
\* carries the number k of its requests.
Msg(role, u, it, k, tag) == [role |-> role, u |-> u, it |-> it, k |-> k, tag |-> tag]

SYSTEM_PROMPT == Msg("system", 0, 0, 0, "prompt")

UserMsg(u) == Msg("user", u, 0, 0, "input")

AssistantMsg(u, it, n) == Msg("assistant", u, it, n, "tool_calls")

ToolMsg(u, it, k, tag) == Msg("tool", u, it, k, tag)

Last(s) == s[Len(s)]

\* ------------------------------------------------------------ completion client
\* LLMHandler.is_initialized
is_initialized == llm

\* An initialize that keeps the client it holds when the new credentials are
\* incomplete.
initialize_keeps_previous(api_key, endpoint, constructs) ==
    IF api_key = "" \/ endpoint = "" THEN llm ELSE constructs

\* LLMHandler.initialize: the success flag, which is also whether a client is
\* held afterwards (self.llm is reset to None on every failing path).
initialize(api_key, endpoint, constructs) ==
    IF api_key = "" \/ endpoint = "" THEN FALSE ELSE constructs

\* AppController.update_azure_config
update_azure_config(api_key, endpoint, constructs) ==
    /\ Running(TkHandle)
    /\ clicks.config < budget.config
    /\ clicks' = [clicks EXCEPT !.config = @ + 1]
    /\ llm' = initialize(api_key, endpoint, constructs)
    /\ out' = Emit(<<Status("Re-initializing LLM..."),
                Sys(IF llm' THEN "Azure OpenAI client initialized."
                    ELSE "Azure OpenAI client not initialized"),
                Status(IF llm' THEN "LLM Ready" ELSE "LLM Init Failed")>>)
    /\ UNCHANGED <<session, connection_task, task, disc, ready, messages, turn,
                   lister, env, budget>>

\* ------------------------------------------------------------ tool catalog
\* The longest tool list a session returns.
MaxTools == 2

\* A Python value where None and a list both occur: what list_tools() returns.
PyNone == [py |-> "None"]

PyList(items) == [py |-> "list", items |-> items]

\* The literal {"type": "object", "properties": {}}
EmptySchema == "{type: object, properties: {}}"

\* The values of a descriptor's inputSchema that are dicts.
DictSchemas == {EmptySchema, "{type: object, properties: {query}}"}

\* What a descriptor's inputSchema can be: no such attribute, None, a value
\* that is not a dict, or a dict.
InputSchemas == {"missing", "None", "not a dict"} \cup DictSchemas

\* The tool descriptors of a session; the description goes with the name.
Descriptors == [name : {"bing_search", "find_hotels"}, inputSchema : InputSchemas]

\* The lists tools_result.tools can be.
ToolLists == UNION {[1..n -> Descriptors] : n \in 0..MaxTools}

\* The tool list of a server whose tools all carry a schema, as server.py's do.
ServerTools == {<<[name |-> "bing_search", inputSchema |-> "{type: object, properties: {query}}"]>>}

\* Python's truth value of what list_tools() returned.
truthy(v) == v.py = "list" /\ v.items # <<>>

\* The schema is passed on as it is found.
parameters_unchecked(tool) == tool.inputSchema

\* Lines 47-50 of format_tools_for_openai: getattr with the default, then the
\* fallback for a value that is not a dict.
parameters(tool) ==
    LET found == IF tool.inputSchema = "missing" THEN EmptySchema
                 ELSE tool.inputSchema
    IN  IF found \notin DictSchemas THEN EmptySchema ELSE found

\* LLMHandler.format_tools_for_openai
format_tools_for_openai(mcp_tools) ==
    IF ~truthy(mcp_tools) THEN <<>>
    ELSE [i \in 1..Len(mcp_tools.items) |->
             [type |-> "function",
              function |-> [name |-> mcp_tools.items[i].name,
                            description |-> mcp_tools.items[i].name,
                            parameters |-> parameters(mcp_tools.items[i])]]]

\* ------------------------------------------------------------ preflight
NewTurn == [pc |-> "new", it |-> 0, listed |-> PyNone, tools |-> <<>>,
            asked |-> PyNone, n |-> 0, ci |-> 0, res |-> "none", on |-> None,
            comps |-> 0, invs |-> 0, notices |-> 0, exit |-> "none"]

\* No rollback: the optimistic append stays.
rollback_never(m) == m

\* A rollback that takes the message before the appended one as well.
rollback_too_far(m) == SubSeq(m, 1, Len(m) - 2)

\* Lines 138-139 of send_message_to_llm: undo the optimistic append.
rollback(m) ==
    IF m # <<>> /\ Last(m).role = "user" THEN SubSeq(m, 1, Len(m) - 1) ELSE m

\* AppController.send_message_to_llm; the click is turn number u.
send_message_to_llm(user_input) ==
    /\ Running(TkHandle)
    /\ clicks.send < budget.send
    /\ clicks' = [clicks EXCEPT !.send = IF user_input = "" THEN @ ELSE @ + 1]
    /\ LET u == clicks.send + 1 IN
       IF user_input = ""
       THEN /\ out' = Emit(<<>>)
            /\ UNCHANGED <<messages, turn, ready>>
       ELSE IF ~is_initialized
       THEN /\ messages' = rollback(Append(messages, UserMsg(u)))
            /\ out' = Emit(<<<<"user", "input">>,
                        Sys("Azure OpenAI client is not initialized.")>>)
            /\ UNCHANGED <<turn, ready>>
       ELSE /\ messages' = Append(messages, UserMsg(u))
            /\ turn' = [turn EXCEPT ![u] = NewTurn]
            /\ ready' = Append(ready, H("turn", u))
            /\ out' = Emit(<<<<"user", "input">>, Status("Processing...")>>)
    /\ UNCHANGED <<session, connection_task, task, disc, llm, lister, env, budget>>

\* ------------------------------------------------------------ the turn
\* The steps of _process_llm_interaction.  A step that does not suspend keeps
\* the turn's handle at the head of the queue: nothing else runs in between.
UnchangedByTurn == <<session, connection_task, task, disc, clicks, llm, lister, budget>>

\* Lines 155-163 when is_connected() is false: no catalog, a note.
turn_start_offline(u) ==
    /\ Running(H("turn", u))
    /\ turn[u].pc = "new"
    /\ ~is_connected
    /\ turn' = [turn EXCEPT ![u].pc = "loop"]
    /\ out' = Emit(<<Sys("Not connected to MCP server. Proceeding without tools.")>>)
    /\ UNCHANGED <<ready, messages, env, UnchangedByTurn>>

\* Lines 155-156 when connected: list_tools() awaits session.list_tools().
turn_start_listing(u) ==
    /\ Running(H("turn", u))
    /\ turn[u].pc = "new"
    /\ is_connected
    /\ turn' = [turn EXCEPT ![u].pc = "listing", ![u].on = session]
    /\ ready' = Tail(ready)
    /\ out' = Emit(<<>>)
    /\ UNCHANGED <<messages, env, UnchangedByTurn>>

\* session.list_tools() settled: a non-empty list is formatted into the
\* catalog; an empty list, or an exception (list_tools returns None), leaves
\* the catalog empty.
turn_listed(u) ==
    /\ Running(H("turn", u))
    /\ turn[u].pc = "listing"
    /\ LET current_tools == IF turn[u].res = "err" THEN PyNone ELSE turn[u].listed IN
       /\ turn' = [turn EXCEPT ![u].pc = "loop", ![u].res = "none", ![u].on = None,
                               ![u].listed = PyNone,
                               ![u].tools = IF truthy(current_tools)
                                            THEN format_tools_for_openai(current_tools)
                                            ELSE <<>>]
       /\ out' = Emit((IF turn[u].res = "err" THEN <<Sys("Error listing tools")>> ELSE <<>>)
                 \o (IF truthy(current_tools) THEN <<>>
                     ELSE <<Sys("Connected to MCP, but no tools found or error listing tools.")>>))
    /\ UNCHANGED <<ready, messages, env, UnchangedByTurn>>

\* A tools argument that follows the connection: no catalog is passed while
\* the manager is not connected.
tools_argument_while_connected(u) ==
    IF is_connected /\ turn[u].tools # <<>> THEN PyList(turn[u].tools) ELSE PyNone

\* Line 177: the tools argument of get_completion, the turn's catalog or None.
tools_argument(u) ==
    IF turn[u].tools # <<>> THEN PyList(turn[u].tools) ELSE PyNone

\* The while condition off by one.
loop_continues_off_by_one(iterations) == iterations <= max_iterations

\* The while condition of line 169.
loop_continues(iterations) == iterations < max_iterations

\* The end of the turn without the finally clause.
leave_loop_without_finally(u, iterations, comps, why, log) ==
    LET notice == iterations >= max_iterations IN
    /\ turn' = [turn EXCEPT ![u].pc = "done", ![u].it = iterations,
                            ![u].comps = comps, ![u].exit = why,
                            ![u].asked = IF comps > turn[u].comps
                                         THEN tools_argument(u) ELSE @,
                            ![u].notices = @ + (IF notice THEN 1 ELSE 0)]
    /\ out' = Emit(log
              \o (IF notice THEN <<Sys("Reached maximum tool call iterations")>> ELSE <<>>))
    /\ ready' = Tail(ready)

\* Lines 272-279: the check after the loop, then the finally clause.
leave_loop(u, iterations, comps, why, log) ==
    LET notice == iterations >= max_iterations IN
    /\ turn' = [turn EXCEPT ![u].pc = "done", ![u].it = iterations,
                            ![u].comps = comps, ![u].exit = why,
                            ![u].asked = IF comps > turn[u].comps
                                         THEN tools_argument(u) ELSE @,
                            ![u].notices = @ + (IF notice THEN 1 ELSE 0)]
    /\ out' = Emit(log
              \o (IF notice THEN <<Sys("Reached maximum tool call iterations")>> ELSE <<>>)
              \o <<Status("Ready")>>)
    /\ ready' = Tail(ready)

\* The while condition is false: the loop is exhausted.
turn_ceiling(u) ==
    /\ Running(H("turn", u))
    /\ turn[u].pc = "loop"
    /\ ~loop_continues(turn[u].it)
    /\ leave_loop(u, turn[u].it, turn[u].comps, "ceiling", <<>>)
    /\ UNCHANGED <<messages, env, UnchangedByTurn>>

\* An except clause that takes the turn's user message back out of the history.
turn_uninitialized_rolls_back(u) ==
    /\ Running(H("turn", u))
    /\ turn[u].pc = "loop"
    /\ loop_continues(turn[u].it)
    /\ ~llm
    /\ turn' = [turn EXCEPT ![u].pc = "done", ![u].it = @ + 1, ![u].comps = @ + 1,
                            ![u].asked = tools_argument(u), ![u].exit = "exception"]
    /\ out' = Emit(<<Status("LLM Call"), Sys("Error during LLM processing"),
                Sys("Traceback"), Status("Ready")>>)
    /\ ready' = Tail(ready)
    /\ messages' = SelectSeq(messages, LAMBDA m : m # UserMsg(u))
    /\ UNCHANGED <<env, UnchangedByTurn>>

\* get_completion raises ValueError (no client): lines 275-279.
turn_uninitialized(u) ==
    /\ Running(H("turn", u))
    /\ turn[u].pc = "loop"
    /\ loop_continues(turn[u].it)
    /\ ~llm
    /\ turn' = [turn EXCEPT ![u].pc = "done", ![u].it = @ + 1, ![u].comps = @ + 1,
                            ![u].asked = tools_argument(u), ![u].exit = "exception"]
    /\ out' = Emit(<<Status("LLM Call"), Sys("Error during LLM processing"),
                Sys("Traceback"), Status("Ready")>>)
    /\ ready' = Tail(ready)
    /\ UNCHANGED <<messages, env, UnchangedByTurn>>

\* What a response without tool calls emits before the break.
\*   "invalid": an object without a role (lines 181-183)
\*   "error":   the synthetic message of get_completion's except clause
\*   "text":    content, no tool calls
\*   "empty":   neither content nor tool calls
FinalLog(kind) ==
    CASE kind = "invalid" -> <<Sys("Failed to get LLM response")>>
      [] kind = "empty" -> <<Sys("(No text response and no tool call)")>>
      [] kind = "error" -> <<<<"assistant", "Error communicating with LLM">>>>
      [] OTHER -> <<<<"assistant", "content">>>>

\* A pass that records the synthetic error message in the history.
turn_final_error_recorded(u, kind) ==
    /\ Running(H("turn", u))
    /\ turn[u].pc = "loop"
    /\ loop_continues(turn[u].it)
    /\ llm
    /\ leave_loop(u, turn[u].it + 1, turn[u].comps + 1, kind,
                  <<Status("LLM Call")>> \o FinalLog(kind))
    /\ messages' = IF kind = "error"
                   THEN Append(messages, Msg("assistant", u, turn[u].it + 1, 0, "error"))
                   ELSE messages
    /\ UNCHANGED <<env, UnchangedByTurn>>

\* A pass that appends the final text-only response to the history.
turn_final_text_recorded(u, kind) ==
    /\ Running(H("turn", u))
    /\ turn[u].pc = "loop"
    /\ loop_continues(turn[u].it)
    /\ llm
    /\ leave_loop(u, turn[u].it + 1, turn[u].comps + 1, kind,
                  <<Status("LLM Call")>> \o FinalLog(kind))
    /\ messages' = IF kind = "text"
                   THEN Append(messages, Msg("assistant", u, turn[u].it + 1, 0, "content"))
                   ELSE messages
    /\ UNCHANGED <<env, UnchangedByTurn>>

\* One pass of the loop that ends in a break.
turn_final(u, kind) ==
    /\ Running(H("turn", u))
    /\ turn[u].pc = "loop"
    /\ loop_continues(turn[u].it)
    /\ llm
    /\ leave_loop(u, turn[u].it + 1, turn[u].comps + 1, kind,
                  <<Status("LLM Call")>> \o FinalLog(kind))
    /\ UNCHANGED <<messages, env, UnchangedByTurn>>

\* The assistant message is not recorded.
with_assistant_dropped(m, dump) == m

\* Lines 216-219: the assistant message is appended unless it equals the
\* last message of the history.
with_assistant(m, dump) == IF m = <<>> \/ Last(m) # dump THEN Append(m, dump) ELSE m

\* The requests taken last to first.
tool_call_at_reversed(n, i) == n + 1 - i

\* The for loops of lines 231 and 242 take the requests in response order:
\* the i-th request handled is the i-th of the n requested.
tool_call_at(n, i) == i

\* Lines 228-238: not connected when the tool calls are about to run.
not_connected_results(u, it, n) ==
    [i \in 1..n |-> ToolMsg(u, it, tool_call_at(n, i), "MCP server not connected.")]

\* A response with tool calls whose text is not shown.
turn_tool_calls_text_dropped(u, n, content) ==
    /\ Running(H("turn", u))
    /\ turn[u].pc = "loop"
    /\ loop_continues(turn[u].it)
    /\ llm
    /\ env.toolcalls + n <= budget.toolcalls
    /\ env' = [env EXCEPT !.toolcalls = @ + n]
    /\ LET it == turn[u].it + 1
           hist == with_assistant(messages, AssistantMsg(u, it, n))
       IN IF ~is_connected
          THEN /\ messages' = hist \o not_connected_results(u, it, n)
               /\ turn' = [turn EXCEPT ![u].it = it, ![u].comps = @ + 1, ![u].n = n,
                                       ![u].asked = tools_argument(u)]
               /\ out' = Emit(<<Status("LLM Call"),
                           Sys("LLM requested tool call, but not connected to MCP server.")>>)
          ELSE /\ messages' = hist
               /\ turn' = [turn EXCEPT ![u].it = it, ![u].comps = @ + 1, ![u].n = n,
                                       ![u].asked = tools_argument(u),
                                       ![u].ci = 1, ![u].pc = "calls"]
               /\ out' = Emit(<<Status("LLM Call")>>)
    /\ UNCHANGED <<ready, UnchangedByTurn>>

\* One pass of the loop whose response carries n tool calls (and content or
\* not): up to the first tool call, or through the not-connected shortcut.
turn_tool_calls(u, n, content) ==
    /\ Running(H("turn", u))
    /\ turn[u].pc = "loop"
    /\ loop_continues(turn[u].it)
    /\ llm
    /\ env.toolcalls + n <= budget.toolcalls
    /\ env' = [env EXCEPT !.toolcalls = @ + n]
    /\ LET it == turn[u].it + 1
           hist == with_assistant(messages, AssistantMsg(u, it, n))
           text == IF content THEN <<<<"assistant", "content">>>> ELSE <<>>
       IN IF ~is_connected
          THEN /\ messages' = hist \o not_connected_results(u, it, n)
               /\ turn' = [turn EXCEPT ![u].it = it, ![u].comps = @ + 1, ![u].n = n,
                                       ![u].asked = tools_argument(u)]
               /\ out' = Emit(<<Status("LLM Call")>> \o text
                         \o <<Sys("LLM requested tool call, but not connected to MCP server.")>>)
          ELSE /\ messages' = hist
               /\ turn' = [turn EXCEPT ![u].it = it, ![u].comps = @ + 1, ![u].n = n,
                                       ![u].asked = tools_argument(u),
                                       ![u].ci = 1, ![u].pc = "calls"]
               /\ out' = Emit(<<Status("LLM Call")>> \o text)
    /\ UNCHANGED <<ready, UnchangedByTurn>>

\* A call whose failure is not turned into a payload: the exception leaves
\* the for loop and ends the turn at its except clause.
answered_unless_failed(u, tag) ==
    IF tag = "error"
    THEN /\ messages' = messages
         /\ turn' = [turn EXCEPT ![u].pc = "done", ![u].exit = "exception"]
    ELSE /\ messages' = Append(messages,
                               ToolMsg(u, turn[u].it, turn[u].ci, tag))
         /\ turn' = [turn EXCEPT ![u].res = "none", ![u].on = None,
                                 ![u].ci = IF turn[u].ci = turn[u].n THEN 0 ELSE @ + 1,
                                 ![u].pc = IF turn[u].ci = turn[u].n THEN "loop" ELSE "calls"]

\* A failing call that ends the for loop: the later requests of the response
\* are skipped.
answered_failure_aborts(u, tag) ==
    LET last == turn[u].ci = turn[u].n \/ tag \in {"Invalid arguments JSON", "error"} IN
    /\ messages' = Append(messages,
                          ToolMsg(u, turn[u].it, turn[u].ci, tag))
    /\ turn' = [turn EXCEPT ![u].res = "none", ![u].on = None,
                            ![u].ci = IF last THEN 0 ELSE @ + 1,
                            ![u].pc = IF last THEN "loop" ELSE "calls"]

\* The end of one pass of the for loop of line 242: the tool message is
\* appended (lines 264-269), then the next request or the next iteration.
answered(u, tag) ==
    /\ messages' = Append(messages,
                          ToolMsg(u, turn[u].it, tool_call_at(turn[u].n, turn[u].ci), tag))
    /\ turn' = [turn EXCEPT ![u].res = "none", ![u].on = None,
                            ![u].ci = IF turn[u].ci = turn[u].n THEN 0 ELSE @ + 1,
                            ![u].pc = IF turn[u].ci = turn[u].n THEN "loop" ELSE "calls"]

\* Lines 245-248: the arguments do not decode.
turn_bad_arguments(u) ==
    /\ Running(H("turn", u))
    /\ turn[u].pc = "calls"
    /\ env.faults < budget.faults
    /\ env' = [env EXCEPT !.faults = @ + 1]
    /\ answered(u, "Invalid arguments JSON")
    /\ out' = Emit(<<Sys("Error decoding arguments for tool")>>)
    /\ UNCHANGED <<ready, UnchangedByTurn>>

\* A call_tool() that never takes its not-connected exit.
call_tool_never_refuses == FALSE

\* Line 176 of call_tool(): the not-connected exit is taken.
call_tool_refuses == ~is_connected

\* Lines 254, 176-178: call_tool() finds is_connected() false and returns its
\* error payload without suspending.
turn_call_refused(u) ==
    /\ Running(H("turn", u))
    /\ turn[u].pc = "calls"
    /\ call_tool_refuses
    /\ answered(u, "Not connected to MCP server.")
    /\ out' = Emit(<<<<"tool_call", "call">>, Sys("Not connected to MCP server."),
                <<"tool_response", "response">>>>)
    /\ UNCHANGED <<ready, env, UnchangedByTurn>>

\* Lines 254, 182: call_tool() awaits session.call_tool().
turn_call_forwarded(u) ==
    /\ Running(H("turn", u))
    /\ turn[u].pc = "calls"
    /\ ~call_tool_refuses
    /\ turn' = [turn EXCEPT ![u].pc = "calling", ![u].on = session, ![u].invs = @ + 1]
    /\ ready' = Tail(ready)
    /\ out' = Emit(<<<<"tool_call", "call">>>>)
    /\ UNCHANGED <<messages, env, UnchangedByTurn>>

\* session.call_tool() settled: the normalized result, or the error payload
\* of call_tool's except clause.
turn_call_returned(u) ==
    /\ Running(H("turn", u))
    /\ turn[u].pc = "calling"
    /\ answered(u, IF turn[u].res = "ok" THEN "result" ELSE "error")
    /\ out' = Emit((IF turn[u].res = "ok" THEN <<>> ELSE <<Sys("Error calling tool")>>)
              \o <<<<"tool_response", "response">>>>)
    /\ UNCHANGED <<ready, env, UnchangedByTurn>>

\* The steps of a turn whose client stays initialized and whose tool-call
\* arguments decode, short of the iteration ceiling.
turn_steps(u) ==
    \/ turn_start_offline(u)
    \/ turn_start_listing(u)
    \/ turn_listed(u)
    \/ \E kind \in {"invalid", "error", "text", "empty"} : turn_final(u, kind)
    \/ \E n \in 1..MaxCalls, content \in BOOLEAN : turn_tool_calls(u, n, content)
    \/ turn_call_refused(u)
    \/ turn_call_forwarded(u)
    \/ turn_call_returned(u)

\* AppController._process_llm_interaction
process_llm_interaction(u) ==
    \/ turn_steps(u)
    \/ turn_ceiling(u)
    \/ turn_uninitialized(u)
    \/ turn_bad_arguments(u)

\* The request a suspended turn has outstanding at the session settles:
\* "ok", "empty" (an empty tool list) or "err" (the session raised).  A
\* list_tools request that succeeds brings one of the session's tool lists.
session_reply(u, r) ==
    /\ turn[u].pc \in {"listing", "calling"}
    /\ ~Queued(H("turn", u))
    /\ r = "empty" => turn[u].pc = "listing"
    /\ (r = "err" /\ turn[u].pc = "calling") => env.faults < budget.faults
    /\ env' = IF r = "err" /\ turn[u].pc = "calling"
              THEN [env EXCEPT !.faults = @ + 1] ELSE env
    /\ \E tools_list \in IF turn[u].pc = "listing" /\ r = "ok"
                         THEN budget.catalogs \ {<<>>} ELSE {<<>>} :
          /\ turn' = [turn EXCEPT ![u].res = r,
                                  ![u].listed = IF turn[u].pc = "listing" /\ r # "err"
                                                THEN PyList(tools_list) ELSE PyNone]
    /\ ready' = Append(ready, H("turn", u))
    /\ out' = Emit(<<>>)
    /\ UNCHANGED <<messages, UnchangedByTurn>>

\* ------------------------------------------------------------ List Tools
\* AppController.list_mcp_tools: the handler of the List Tools button.
list_mcp_tools ==
    /\ Running(TkHandle)
    /\ clicks.list < budget.list
    /\ clicks' = [clicks EXCEPT !.list = @ + 1]
    /\ IF ~is_connected
       THEN /\ out' = Emit(<<Sys("Not connected to MCP server.")>>)
            /\ UNCHANGED <<ready, lister>>
       ELSE /\ out' = Emit(<<>>)
            /\ lister' = [lister EXCEPT ![clicks.list + 1].pc = "new"]
            /\ ready' = Append(ready, H("list", clicks.list + 1))
    /\ UNCHANGED <<session, connection_task, task, disc, messages, llm, turn, env,
                   budget>>

UnchangedByLister == <<session, connection_task, task, disc, clicks, messages, llm,
                       turn, env, budget>>

\* Lines 148-150 of list_tools(): not connected, return None.
list_tools_refused(l) ==
    /\ Running(H("list", l))
    /\ lister[l].pc = "new"
    /\ ~is_connected
    /\ lister' = [lister EXCEPT ![l].pc = "done", ![l].res = "null"]
    /\ ready' = Tail(ready)
    /\ out' = Emit(<<Sys("Not connected to MCP server.")>>)
    /\ UNCHANGED UnchangedByLister

\* Line 153: await self.session.list_tools()
list_tools_forwarded(l) ==
    /\ Running(H("list", l))
    /\ lister[l].pc = "new"
    /\ is_connected
    /\ lister' = [lister EXCEPT ![l].pc = "listing", ![l].on = session]
    /\ ready' = Tail(ready)
    /\ out' = Emit(<<>>)
    /\ UNCHANGED UnchangedByLister

\* Lines 154-172: the list is logged and returned, or the exception is logged
\* and None returned.
list_tools_returned(l) ==
    /\ Running(H("list", l))
    /\ lister[l].pc = "listing"
    /\ lister[l].res \in {"ok", "err"}
    /\ lister' = [lister EXCEPT ![l].pc = "done", ![l].on = None,
                                ![l].res = IF lister[l].res = "ok" THEN "tools" ELSE "null"]
    /\ ready' = Tail(ready)
    /\ out' = Emit(IF lister[l].res = "ok" THEN <<Sys("Available tools")>>
                   ELSE <<Sys("Error listing tools"), Sys("Traceback")>>)
    /\ UNCHANGED UnchangedByLister

\* MCPHandler.list_tools, run as a task of its own
list_tools(l) ==
    \/ list_tools_refused(l)
    \/ list_tools_forwarded(l)
    \/ list_tools_returned(l)

\* The request of a suspended list_tools() settles at the session.
lister_reply(l, r) ==
    /\ lister[l].pc = "listing"
    /\ ~Queued(H("list", l))
    /\ lister' = [lister EXCEPT ![l].res = r]
    /\ ready' = Append(ready, H("list", l))
    /\ out' = Emit(<<>>)
    /\ UNCHANGED UnchangedByLister

\* ------------------------------------------------------------ specification
\* The state after AppController.__init__, when main() starts the UI loop
\* task; b is the budget of UI events and environment faults, configured
\* tells whether config.py found the API key and the endpoint.
InitWith(b, configured) ==
    /\ session = None
    /\ connection_task = None
    /\ task = [t \in Tasks |-> [pc |-> "none", cancel |-> FALSE, wake |-> "none",
                                res |-> "none", emits |-> 0]]
    /\ disc = [d \in Discs |-> [pc |-> "none", on |-> None, at |-> "none", emits |-> 0]]
    /\ ready = <<TkHandle>>
    /\ clicks = [connect |-> 0, disconnect |-> 0, send |-> 0, config |-> 0, list |-> 0]
    /\ out = <<>>
    /\ messages = <<SYSTEM_PROMPT>>
    /\ llm \in configured
    /\ turn = [u \in Turns |-> [NewTurn EXCEPT !.pc = "none"]]
    /\ lister = [l \in Listers |-> [pc |-> "none", res |-> "none", on |-> None]]
    /\ env = [faults |-> 0, toolcalls |-> 0]
    /\ budget = b

\* The UI loop, connect requests and the lifecycle tasks.
NextLifecycle ==
    \/ \E t \in Tasks : mcp_session_runner(t)
    \/ \E t \in Tasks, r \in {"ok", "err"} : io_event(t, r)
    \/ \E c \in 1..MaxConnects : connect(c)
    \/ \E t \in Tasks : handle_connection_task_completion(t)
    \/ \E script \in {"", "server.py"} : connect_mcp(script)
    \/ tk_sleep
    \/ tk_timer

NextMcp ==
    \/ NextLifecycle
    \/ \E d \in Discs : disconnect(d)
    \/ disconnect_mcp

\* Sending a message, and the turn's replies from the session.
NextTurn ==
    \/ \E u \in Turns : turn_steps(u)
    \/ \E u \in Turns, r \in {"ok", "empty", "err"} : session_reply(u, r)
    \/ \E user_input \in {"", "hi"} : send_message_to_llm(user_input)

\* The tool session manager alone: connect and disconnect clicks only.
InitMcp ==
    InitWith([connect |-> MaxConnects, disconnect |-> MaxDisconnects, send |-> 0,
              config |-> 0, list |-> 0, faults |-> 0, toolcalls |-> 0, log |-> TRUE, catalogs |-> ServerTools], {TRUE})

SpecMcp == InitMcp /\ [][NextMcp]_vars

\* The whole program around one short turn: connect and disconnect requests,
\* changed settings, failing tool calls.
Init ==
    InitWith([connect |-> 1, disconnect |-> 1, send |-> 1, config |-> MaxConfigs, list |-> 0,
              faults |-> MaxToolFaults, toolcalls |-> MaxToolCalls, log |-> TRUE, catalogs |-> ServerTools], BOOLEAN)

Next ==
    \/ NextMcp
    \/ NextTurn
    \/ \E u \in Turns : turn_uninitialized(u)
    \/ \E u \in Turns : turn_bad_arguments(u)
    \/ \E api_key \in {"", "key"}, endpoint \in {"", "url"}, constructs \in BOOLEAN :
           update_azure_config(api_key, endpoint, constructs)

Spec == Init /\ [][Next]_vars

\* One turn through all its iterations, while the connection comes and goes
\* (a connect and a disconnect request, failures of the lifecycle task).
InitCeiling ==
    InitWith([connect |-> 1, disconnect |-> 1, send |-> 1, config |-> 0, list |-> 0,
              faults |-> 0, toolcalls |-> CeilingToolCalls, log |-> TRUE, catalogs |-> ServerTools], {TRUE})

NextCeiling ==
    \/ NextMcp
    \/ NextTurn
    \/ \E u \in Turns : turn_ceiling(u)

SpecCeiling == InitCeiling /\ [][NextCeiling]_vars

\* Overlapping turns, with connect and disconnect requests: the settings stay
\* as they are and every tool call decodes and succeeds.
InitRace ==
    InitWith([connect |-> 1, disconnect |-> 1, send |-> RaceSends, config |-> 0, list |-> 0,
              faults |-> 0, toolcalls |-> RaceToolCalls, log |-> FALSE, catalogs |-> ServerTools], {TRUE})

NextRace == NextMcp \/ NextTurn

SpecRace == InitRace /\ [][NextRace]_vars

\* One turn and every way it can end: as SpecCeiling, and the settings can be
\* changed under the turn (the completion client can be lost).
InitExits ==
    InitWith([connect |-> 1, disconnect |-> 1, send |-> 1, config |-> MaxConfigs,
              list |-> 0, faults |-> 0, toolcalls |-> CeilingToolCalls,
              log |-> TRUE, catalogs |-> ServerTools], {TRUE})

NextExits ==
    \/ NextCeiling
    \/ \E u \in Turns : turn_uninitialized(u)
    \/ \E api_key \in {"", "key"}, endpoint \in {"", "url"}, constructs \in BOOLEAN :
           update_azure_config(api_key, endpoint, constructs)

SpecExits == InitExits /\ [][NextExits]_vars

\* Tool discovery and invocation while the connection comes and goes: one
\* connect, one disconnect, one message, List Tools clicks.
InitTools ==
    InitWith([connect |-> 1, disconnect |-> 1, send |-> 1, config |-> 0,
              list |-> MaxLists, faults |-> 0, toolcalls |-> ToolsToolCalls,
              log |-> TRUE, catalogs |-> ServerTools], {TRUE})

NextTools ==
    \/ NextMcp
    \/ NextTurn
    \/ list_mcp_tools
    \/ \E l \in Listers : list_tools(l)
    \/ \E l \in Listers, r \in {"ok", "err"} : lister_reply(l, r)

SpecTools == InitTools /\ [][NextTools]_vars

\* The catalog of a turn: the session answers list_tools with any of the tool
\* lists, while the connection comes and goes; the model asks for no tool.
InitCatalog ==
    InitWith([connect |-> 1, disconnect |-> 1, send |-> 1, config |-> 0, list |-> 0,
              faults |-> 0, toolcalls |-> 0, log |-> FALSE, catalogs |-> ToolLists],
             {TRUE})

NextCatalog ==
    \/ NextMcp
    \/ \E user_input \in {"", "hi"} : send_message_to_llm(user_input)
    \/ \E u \in Turns : turn_start_offline(u)
    \/ \E u \in Turns : turn_start_listing(u)
    \/ \E u \in Turns : turn_listed(u)
    \/ \E u \in Turns, kind \in {"invalid", "error", "text", "empty"} : turn_final(u, kind)
    \/ \E u \in Turns, r \in {"ok", "empty", "err"} : session_reply(u, r)

SpecCatalog == InitCatalog /\ [][NextCatalog]_vars

\* The tool session manager under the event loop's scheduling: a callback in
\* the ready queue is run, the UI loop returns from root.update(), and every
\* operation a lifecycle task awaits (spawn, handshake, sleep, teardown)
\* returns or fails.  Nothing forces the user to click.
InitLive ==
    InitWith([connect |-> LiveConnects, disconnect |-> LiveDisconnects, send |-> 0,
              config |-> 0, list |-> 0, faults |-> 0, toolcalls |-> 0, log |-> TRUE,
              catalogs |-> ServerTools], {TRUE})

Fairness ==
    /\ \A t \in Tasks : WF_vars(mcp_session_runner(t))
    /\ \A t \in Tasks : WF_vars(\E r \in {"ok", "err"} : io_event(t, r))
    /\ \A t \in Tasks : WF_vars(handle_connection_task_completion(t))
    /\ \A c \in 1..MaxConnects : WF_vars(connect(c))
    /\ \A d \in Discs : WF_vars(disconnect(d))
    /\ WF_vars(tk_sleep)

SpecLive == InitLive /\ [][NextMcp]_vars /\ Fairness

\* ------------------------------------------------------------ claims
\* C1: in every turn the number of get_completion calls is at most 5,
\* whatever the model answers and the tools return.
C1_CompletionCeiling == \A u \in Turns : turn[u].comps <= 5

\* A turn that made 5 completion calls and ended at the ceiling.
C1_Witness ==
    \E u \in Turns : turn[u].pc = "done" /\ turn[u].comps = 5 /\ turn[u].exit = "ceiling"

\* C2: a finished turn emitted the "Reached maximum tool call iterations"
\* notice exactly once if it exhausted the loop, and not at all if it ended
\* because a response carried no tool calls, whichever iteration that was.
C2_NoticeOnlyAtCeiling ==
    \A u \in Turns :
        turn[u].pc = "done" =>
            /\ turn[u].exit = "ceiling" => turn[u].notices = 1
            /\ turn[u].exit \in {"text", "empty", "error"} => turn[u].notices = 0

\* C3: the tool messages that answer the requests of one assistant response
\* stand in the history in the order of the requests.
C3_ToolResultsInRequestOrder ==
    \A i, j \in DOMAIN messages :
        ( /\ messages[i].role = "tool" /\ messages[j].role = "tool"
          /\ messages[i].u = messages[j].u /\ messages[i].it = messages[j].it
          /\ messages[i].k < messages[j].k ) => i < j

\* Both requests of one response are answered, and a message of another turn
\* came in between.
C3_Witness ==
    \E i, j, l \in DOMAIN messages :
        /\ i < j /\ j < l
        /\ messages[i].role = "tool" /\ messages[l].role = "tool"
        /\ messages[i].u = messages[l].u /\ messages[i].it = messages[l].it
        /\ messages[i].k = 1 /\ messages[l].k = 2
        /\ messages[j].u # messages[i].u

\* C4: send_message_to_llm with a non-empty input and an initialized client
\* appends exactly the user message and schedules a turn that has made no call
\* yet; with an uninitialized client it leaves the history as it was and
\* schedules nothing.
C4_Preflight ==
    [][send_message_to_llm("hi") =>
          IF is_initialized
          THEN /\ messages' = Append(messages, UserMsg(clicks.send + 1))
               /\ turn' = [turn EXCEPT ![clicks.send + 1] = NewTurn]
               /\ ready' = Append(ready, H("turn", clicks.send + 1))
          ELSE /\ messages' = messages
               /\ turn' = turn
               /\ ready' = ready]_vars

\* A message was sent with an uninitialized client and rolled back.
C4_Witness ==
    /\ out = <<<<"user", "input">>, Sys("Azure OpenAI client is not initialized.")>>
    /\ ~llm
    /\ \A i \in DOMAIN messages : messages[i].role # "user"

\* C5: at most one lifecycle task is alive, and an alive task is the one the
\* manager references.
C5_OneLifecycleTask ==
    /\ Cardinality({t \in Tasks : Alive(t)}) <= 1
    /\ \A t \in Tasks : Alive(t) => connection_task = t

\* C6: is_connected() is false whenever the lifecycle task is absent or has
\* finished, also while the session handle is still set.
C6_NotConnectedWithoutTask ==
    (connection_task = None \/ done(connection_task)) => ~is_connected

\* A session handle is set although no running task is registered.
C6_Witness ==
    /\ session # None
    /\ connection_task = None \/ done(connection_task)

\* C7: is_connected() is true exactly when the handshake has completed and
\* the lifecycle task is alive.
C7_ConnectedIffHandshakeDone ==
    is_connected <=> (connection_task # None /\ task[connection_task].pc = "idle")

\* C8: when the manager holds no lifecycle task, the session handle is empty.
C8_NoHandleWithoutTask == connection_task = None => session = None

\* C9: connect() run while a lifecycle task is registered launches nothing,
\* leaves the session handle and the registered task as they are and reports
\* that a connection exists or is in progress.
C9_ConnectRejected ==
    [][\A c \in 1..MaxConnects :
          (connect(c) /\ connection_task # None) =>
              /\ session' = session
              /\ connection_task' = connection_task
              /\ task' = task
              /\ ready' = Tail(ready)
              /\ out' = <<Sys("Already connected or connection attempt in progress.")>>]_vars

\* A connect() was just rejected while a task was registered.
C9_Witness ==
    /\ out = <<Sys("Already connected or connection attempt in progress.")>>
    /\ connection_task # None

\* C10: for a lifecycle task that disconnect() cancelled in mid-handshake,
\* "Disconnected" is emitted once, not again by the task's own cleanup or by
\* its done-callback.
C10_DisconnectedOnce ==
    \A d \in Discs : disc[d].at = "handshake" => task[disc[d].on].emits <= 1

\* C11: a disconnect() that finds no running lifecycle task registered raises
\* nothing: it ends with the reset and its one "Disconnected" status.
C11_DisconnectWhenDisconnected ==
    \A d \in Discs :
        (disc[d].on = None /\ disc[d].pc \notin {"none", "new"}) =>
            (disc[d].pc = "done" /\ disc[d].emits = 1)

\* C12: disconnect() goes on after its await only when the lifecycle task it
\* cancelled is done; it swallows the task's CancelledError (logs it and ends
\* normally), emits "Disconnected" last, and is_connected() is false when it
\* returns.
C12_DisconnectAfterSettlement ==
    [][\A d \in Discs :
          disconnect_resume(d) =>
              /\ done(disc[d].on)
              /\ task[disc[d].on].res = "cancelled"
              /\ disc'[d].pc = "done"
              /\ out' = <<Sys("MCP connection cancelled."), Status("Disconnected")>>
              /\ ~is_connected']_vars

\* A disconnect() returned after it had cancelled a task in mid-handshake whose
\* context managers took a while to close.
C12_Witness ==
    \E d \in Discs :
        /\ disc[d].pc = "done" /\ disc[d].on # None /\ disc[d].at = "handshake"
        /\ done(disc[d].on)
        /\ out = <<Sys("MCP connection cancelled."), Status("Disconnected")>>

\* C13: with is_connected() false, call_tool() returns its error payload (the
\* orchestrator appends it as the tool message) and list_tools() returns None;
\* neither forwards a request to a session, and neither changes the session
\* handle, the registered task or any lifecycle task.
C13_NotConnectedReturns ==
    [][/\ \A u \in Turns :
             ( /\ Running(H("turn", u)) /\ turn[u].pc = "calls"
               /\ ~is_connected /\ turn'[u] # turn[u] ) =>
                 /\ messages' = Append(messages,
                        ToolMsg(u, turn[u].it, turn[u].ci, "Not connected to MCP server."))
                 /\ turn'[u].pc \in {"calls", "loop"}
                 /\ turn'[u].invs = turn[u].invs
                 /\ UNCHANGED <<session, connection_task, task>>
       /\ \A l \in Listers :
             ( /\ Running(H("list", l)) /\ lister[l].pc = "new"
               /\ ~is_connected /\ lister'[l] # lister[l] ) =>
                 /\ lister'[l] = [pc |-> "done", res |-> "null", on |-> None]
                 /\ UNCHANGED <<session, connection_task, task>>]_vars

\* A list_tools() task just found the connection gone, in a history where a
\* call_tool() had found it gone too.
C13_Witness ==
    /\ \E i \in DOMAIN messages : messages[i].tag = "Not connected to MCP server."
    /\ \E l \in Listers : lister[l] = [pc |-> "done", res |-> "null", on |-> None]
    /\ out = <<Sys("Not connected to MCP server.")>>

\* C14: every call_tool() that was forwarded to the session returns, when the
\* session call settles, the normalized result or the {error: ...} payload,
\* also when the session failed or was torn down meanwhile: the orchestrator
\* appends the tool message of that call and the turn goes on.
C14_CallToolNeverPropagates ==
    [][\A u \in Turns :
          (Running(H("turn", u)) /\ turn[u].pc = "calling" /\ turn'[u] # turn[u]) =>
              /\ messages' = Append(messages,
                     ToolMsg(u, turn[u].it, turn[u].ci,
                             IF turn[u].res = "ok" THEN "result" ELSE "error"))
              /\ turn'[u].pc \in {"calls", "loop"}
              /\ turn'[u].exit = "none"]_vars

\* A call failed at a session that is no longer connected, and its error
\* payload has just been appended.
C14_Witness ==
    /\ messages # <<>> /\ Last(messages).tag = "error"
    /\ out = <<Sys("Error calling tool"), <<"tool_response", "response">>>>
    /\ ~is_connected

\* C15: the step that ends a turn emits the status "Ready" last, on each way
\* out: a response without tool calls, an invalid response, the exhausted
\* loop, and an exception, which is reported and ends the task normally.
C15_ReadyOnEveryExit ==
    [][\A u \in Turns :
          (turn[u].pc \notin {"none", "done"} /\ turn'[u].pc = "done") =>
              /\ out' # <<>> /\ Last(out') = Status("Ready")
              /\ Count(out', Status("Ready")) = 1
              /\ turn'[u].exit \in {"text", "empty", "error", "invalid", "ceiling",
                                    "exception"}
              /\ turn'[u].exit = "exception" =>
                     \E i \in DOMAIN out' : out'[i] = Sys("Error during LLM processing")
              /\ ready' = Tail(ready)]_vars

\* A turn ended by an exception after it had been through tool calls.
C15_Witness ==
    \E u \in Turns :
        /\ turn[u].pc = "done" /\ turn[u].exit = "exception" /\ turn[u].comps > 1
        /\ out # <<>> /\ Last(out) = Status("Ready")

\* C16: a tool call processed while the tool session manager is not connected
\* is answered with {error: "MCP server not connected."} and no other payload,
\* also when the connection was lost after an earlier call of the same
\* response.
C16_NotConnectedPayload ==
    \A i \in DOMAIN messages :
        messages[i].role = "tool" => messages[i].tag # "Not connected to MCP server."

\* C17: a tool call whose arguments do not decode is not forwarded and is
\* answered with {error: "Invalid arguments JSON"}, and the for loop goes on:
\* once a turn is back at its loop (or has ended), every request of every
\* response of that turn has its tool message, whatever failed among them.
C17_FailingCallIsolated ==
    /\ [](\A u \in Turns :
            turn[u].pc \in {"loop", "done"} =>
                \A i \in DOMAIN messages :
                    (messages[i].role = "assistant" /\ messages[i].u = u) =>
                        \A k \in 1..messages[i].k :
                            \E j \in DOMAIN messages :
                                /\ j > i
                                /\ messages[j].role = "tool" /\ messages[j].u = u
                                /\ messages[j].it = messages[i].it /\ messages[j].k = k)
    /\ [][\A u \in Turns :
             turn_bad_arguments(u) =>
                 /\ messages' = Append(messages,
                        ToolMsg(u, turn[u].it, turn[u].ci, "Invalid arguments JSON"))
                 /\ turn'[u].invs = turn[u].invs
                 /\ turn'[u].pc = IF turn[u].ci < turn[u].n THEN "calls" ELSE "loop"
                 /\ ready' = ready]_vars

\* The first call of a response failed to decode and the second was carried
\* out by the session.
C17_Witness ==
    \E i, j \in DOMAIN messages :
        /\ messages[i].role = "tool" /\ messages[i].tag = "Invalid arguments JSON"
        /\ messages[j].role = "tool" /\ messages[j].tag = "result"
        /\ messages[i].u = messages[j].u /\ messages[i].it = messages[j].it
        /\ messages[i].k = 1 /\ messages[j].k = 2 /\ i < j

\* C18: every tool message answers a request of an assistant message that
\* stands earlier in the history; no request is answered twice; and once the
\* iteration that processed a response is over, each of its requests is
\* answered exactly once.
C18_ToolMessagesMatchRequests ==
    LET Tool(j, u, it, k) ==
            /\ messages[j].role = "tool" /\ messages[j].u = u
            /\ messages[j].it = it /\ messages[j].k = k
        Answers(i, k) ==
            {j \in DOMAIN messages : Tool(j, messages[i].u, messages[i].it, k)}
        Over(i) ==
            \/ turn[messages[i].u].it > messages[i].it
            \/ turn[messages[i].u].pc \in {"loop", "done"}
    IN /\ \A j \in DOMAIN messages :
              messages[j].role = "tool" =>
                  \E i \in 1..(j - 1) :
                      /\ messages[i].role = "assistant"
                      /\ messages[i].u = messages[j].u /\ messages[i].it = messages[j].it
                      /\ messages[j].k \in 1..messages[i].k
       /\ \A i \in DOMAIN messages :
              messages[i].role = "assistant" =>
                  \A k \in 1..messages[i].k :
                      /\ Cardinality(Answers(i, k)) <= 1
                      /\ Over(i) => Cardinality(Answers(i, k)) = 1
                      /\ \A j \in Answers(i, k) : j > i

\* A finished turn whose response with two requests got its two answers, one
\* of them a failure.
C18_Witness ==
    \E i \in DOMAIN messages :
        /\ messages[i].role = "assistant" /\ messages[i].k = 2
        /\ turn[messages[i].u].pc = "done"
        /\ Len(messages) = i + 2
        /\ messages[i + 1].role = "tool" /\ messages[i + 2].role = "tool"
        /\ messages[i + 1].tag # messages[i + 2].tag

\* C19: the history is append-only: every step leaves the messages it finds
\* as a prefix of the history; the preflight rollback removes exactly the user
\* message the same call appended; the system message stays first.
C19_AppendOnly ==
    /\ [](/\ messages # <<>> /\ messages[1] = SYSTEM_PROMPT
          /\ \A u \in Turns : rollback(Append(messages, UserMsg(u))) = messages)
    /\ [][/\ Len(messages') >= Len(messages)
          /\ SubSeq(messages', 1, Len(messages)) = messages]_vars

\* The settings were changed, a message was then sent without a client and
\* rolled back, after which the history is the system message alone.
C19_Witness ==
    /\ Len(out) = 2 /\ out[2] = Sys("Azure OpenAI client is not initialized.")
    /\ clicks.config = 1 /\ clicks.send = 1
    /\ messages = <<SYSTEM_PROMPT>>

\* C20: a step that reports a failure emits a system message; here the
\* failure of the completion call (transport or API error), whose report
\* must not go out under the assistant role alone.
C20_FailureHasSystemMessage ==
    (\E i \in DOMAIN out : out[i] = <<"assistant", "Error communicating with LLM">>) =>
        \E j \in DOMAIN out : out[j][1] = "system"

\* C21: after every initialize call (here the one of update_azure_config) the
\* client is initialized exactly when the call succeeded, that is when key and
\* endpoint are non-empty and the client could be constructed, whatever was
\* held before; the call raises nothing and its outcome is reported.
C21_InitializedIffLastCallSucceeded ==
    [][\A api_key \in {"", "key"}, endpoint \in {"", "url"}, constructs \in BOOLEAN :
          update_azure_config(api_key, endpoint, constructs) =>
              /\ is_initialized' = (api_key # "" /\ endpoint # "" /\ constructs)
              /\ Len(out') = 3
              /\ out'[3] = Status(IF is_initialized' THEN "LLM Ready" ELSE "LLM Init Failed")
              /\ out'[2][1] = "system"]_vars

\* A client that had accepted a message was replaced by a failed
\* initialization.
C21_Witness ==
    /\ turn[1].pc # "none"
    /\ ~is_initialized
    /\ Len(out) = 3 /\ out[3] = Status("LLM Init Failed")

\* C22: the completion request of a turn is a suspension point: the step that
\* sends the request suspends the turn (its handle leaves the ready queue, the
\* task is not finished), so that other tasks run before the response is
\* handled; the response is not handled in the requesting step.
C22_CompletionSuspends ==
    [][\A u \in Turns :
          (is_initialized /\ turn'[u].comps = turn[u].comps + 1) =>
              /\ ready' = Tail(ready)
              /\ turn'[u].pc # "done"
              /\ messages' = messages]_vars

\* C23: the steps of the tool session manager (connect, disconnect, the
\* lifecycle task, its done-callback, list_tools) leave the history unchanged;
\* the steps of a turn and of the preflight leave the session handle, the
\* registered task and the lifecycle tasks unchanged; nothing else writes
\* either.
C23_Writers ==
    [][LET Manager == \/ \E c \in 1..MaxConnects : connect(c)
                      \/ \E d \in Discs : disconnect(d)
                      \/ \E t \in Tasks : mcp_session_runner(t)
                      \/ \E t \in Tasks : handle_connection_task_completion(t)
           Orchestrator == \/ \E u \in Turns : process_llm_interaction(u)
                           \/ \E user_input \in {"", "hi"} : send_message_to_llm(user_input)
       IN /\ (Manager \/ \E l \in Listers : list_tools(l)) => messages' = messages
          /\ Orchestrator => UNCHANGED <<session, connection_task, task>>
          /\ messages' # messages => Orchestrator
          /\ <<session, connection_task>>' # <<session, connection_task>> => Manager]_vars

\* A turn has appended tool messages to the history and a lifecycle task has
\* set and cleared the session handle.
C23_Witness ==
    /\ \E i \in DOMAIN messages : messages[i].role = "tool" /\ messages[i].tag = "result"
    /\ \E t \in Tasks : done(t) /\ task[t].res = "cancelled"
    /\ session = None /\ connection_task = None
    /\ \E l \in Listers : lister[l].pc = "done"

\* Lifecycle tasks are created, and registered, only by a step of connect().
C24_OnlyConnectStartsTasks ==
    [][/\ \A t \in Tasks :
            (task[t].pc = "none" /\ task'[t].pc # "none") =>
                \E c \in 1..MaxConnects : connect(c)
       /\ (connection_task' # connection_task /\ connection_task' # None) =>
             \E c \in 1..MaxConnects : connect(c)]_vars

\* C24: nothing is retried automatically.  Lifecycle tasks are started only
\* by connect(); the step in which a lifecycle task ends leaves the manager
\* disconnected (is_connected() false, no task registered or only the ended
\* one whose done-callback is pending, no session handle); and a manager that
\* is disconnected (no task registered, no session handle) stays so in every
\* step that is not an accepted connect().
C24_NoAutomaticRetry ==
    [][/\ \A t \in Tasks :
            (task[t].pc = "none" /\ task'[t].pc # "none") =>
                \E c \in 1..MaxConnects : connect(c)
       /\ \A t \in Tasks :
            (~done(t) /\ done(t)') =>
                /\ ~is_connected'
                /\ \/ connection_task' = None /\ session' = None
                   \/ connection_task' = t /\ Queued(H("hc", t))'
       /\ (connection_task = None /\ session = None) =>
             \/ connection_task' = None /\ session' = None
             \/ \E c \in 1..MaxConnects : connect(c)]_vars

\* C25: format_tools_for_openai returns the empty sequence for None and for
\* the empty list; for a list of descriptors it returns as many definitions,
\* in the same order, each with a schema that is a dict: the descriptor's own
\* when that is a dict, the empty-object schema when the descriptor has no
\* schema, None, or a value that is not a dict.  The catalog a turn holds is
\* such a result.
C25_FormatToolCatalog ==
    /\ format_tools_for_openai(PyNone) = <<>>
    /\ format_tools_for_openai(PyList(<<>>)) = <<>>
    /\ \A l \in ToolLists :
          LET f == format_tools_for_openai(PyList(l)) IN
          /\ Len(f) = Len(l)
          /\ \A i \in 1..Len(l) :
                /\ f[i].type = "function"
                /\ f[i].function.name = l[i].name
                /\ f[i].function.parameters =
                       IF l[i].inputSchema \in DictSchemas THEN l[i].inputSchema
                       ELSE EmptySchema
    /\ \A u \in Turns :
          /\ turn[u].tools \in {<<>>} \cup
                 {format_tools_for_openai(PyList(l)) : l \in budget.catalogs}
          /\ \A i \in 1..Len(turn[u].tools) :
                turn[u].tools[i].function.parameters \in DictSchemas

\* A turn holds a catalog of two definitions in the order of the descriptors,
\* the first from a descriptor without a schema.
C25_Witness ==
    \E u \in Turns :
       /\ turn[u].pc = "done"
       /\ Len(turn[u].tools) = 2
       /\ turn[u].tools[1].function.name = "find_hotels"
       /\ turn[u].tools[1].function.parameters = EmptySchema
       /\ turn[u].tools[2].function.name = "bing_search"
       /\ turn[u].tools[2].function.parameters # EmptySchema

\* A step emitted "Disconnected" and left is_connected() false.
C26_Reported == Count(out, Status("Disconnected")) > 0 /\ ~is_connected

\* A lifecycle task that connect() created reports "Connected" and idles, or ends.
C26_AttemptSettles ==
    \A t \in Tasks : (task[t].pc = "new") ~> (task[t].pc = "idle" \/ done(t))

\* The end of a lifecycle task is reported.
C26_TerminationReported ==
    \A t \in Tasks : (done(t) /\ Queued(H("hc", t))) ~> C26_Reported

\* A requested disconnect() is reported.
C26_DisconnectReported ==
    \A d \in Discs : (disc[d].pc = "new") ~> C26_Reported

\* C26: under the event loop's fairness, (a) a lifecycle task that connect()
\* created eventually reports "Connected" and idles, or ends; (b) after a
\* disconnect() was requested, and after a lifecycle task ended, a step
\* eventually emits "Disconnected" and leaves is_connected() false.
C26_LifecycleProgress ==
    /\ C26_AttemptSettles
    /\ C26_TerminationReported
    /\ C26_DisconnectReported
\* C27: the status events of one connection attempt come in order.
\* "Connecting..." is emitted by the step of connect() that creates the
\* lifecycle task, and by no other step; "Connected" is emitted by the step of
\* a task whose handshake returned without an error or a cancellation, and by
\* no other step; "Disconnected" is emitted for an attempt only when its task
\* has ended, so after its "Connecting..." and after its "Connected" if the
\* attempt got that far, and no status of the attempt follows it.
C27_StatusOrder ==
    [][/\ Count(out', Status("Connecting...")) > 0 <=>
             \E t \in Tasks : task[t].pc = "none" /\ task'[t].pc = "new"
       /\ Count(out', Status("Connected")) > 0 <=>
             \E t \in Tasks :
                /\ Running(H("run", t))
                /\ task[t].pc = "handshake" /\ task[t].wake = "ok" /\ ~task[t].cancel
                /\ task'[t].pc = "idle"
       /\ \A t \in Tasks :
             task'[t].emits > task[t].emits =>
                /\ Count(out', Status("Disconnected")) > 0
                /\ task[t].pc # "none"
                /\ done(t)'
       /\ Count(out', Status("Disconnected")) > 0 =>
             \/ \E t \in Tasks : task'[t].emits > task[t].emits
             \/ \E d \in Discs : disc'[d].emits > disc[d].emits
       /\ \A t \in Tasks : done(t) => task'[t] = [task[t] EXCEPT !.emits = task'[t].emits]
      ]_vars

\* An attempt that was connected and then disconnected by a request.
C27_Witness ==
    \E d \in Discs :
       /\ disc[d].pc = "done" /\ disc[d].at = "idle"
       /\ task[disc[d].on].res = "cancelled"
       /\ task[disc[d].on].emits >= 1

\* C28: in the step that handles a response with text and tool calls, the text
\* is the first thing emitted after the status line, as assistant output; no
\* tool is invoked in that step, and the tool messages the step appends (the
\* not-connected results) come after the note emitted after the text.  Tools
\* are invoked and their results appended only by later steps of the turn.
\* The step that handles a response with neither text nor tool calls emits
\* the placeholder and ends the turn.
C28_TextBeforeToolCalls ==
    [][\A u \in Turns :
         LET appended == {i \in DOMAIN messages' :
                             i > Len(messages) /\ messages'[i].role = "tool"} IN
         /\ \A n \in 1..MaxCalls :
               turn_tool_calls(u, n, TRUE) =>
                  /\ Len(out') >= 2
                  /\ out'[1] = Status("LLM Call")
                  /\ out'[2] = <<"assistant", "content">>
                  /\ turn'[u].invs = turn[u].invs
                  /\ turn'[u].pc \notin {"calling", "done"}
                  /\ appended # {} =>
                        /\ Len(out') = 3
                        /\ out'[3] = Sys("LLM requested tool call, but not connected to MCP server.")
         /\ (turn'[u].invs > turn[u].invs
                \/ (turn[u].pc # "calling" /\ turn'[u].pc = "calling")) =>
               turn[u].pc = "calls" /\ turn[u].comps >= 1
         /\ (turn[u].pc # "done" /\ turn'[u].pc = "done" /\ turn'[u].exit = "empty") =>
               /\ Count(out', Sys("(No text response and no tool call)")) = 1
               /\ Count(out', <<"assistant", "content">>) = 0
               /\ messages' = messages
      ]_vars

\* A response with text and tool calls was handled while connected: the text
\* is out, the calls are still to be made.
C28_Witness ==
    \E u \in Turns :
       /\ turn[u].pc = "calls" /\ turn[u].ci = 1 /\ turn[u].invs = 0
       /\ out = <<Status("LLM Call"), <<"assistant", "content">>>>

\* C29: a turn fetches the tool list at most once, in its first step and only
\* when is_connected() holds then, before any completion call.  A turn that
\* starts unconnected, and a fetch that fails or brings an empty list, leave
\* the catalog empty and emit a note; a fetched list is formatted into the
\* catalog.  After that the catalog never changes, and every completion call
\* of the turn is given it (None when it is empty), whatever the connection
\* does meanwhile.
C29_CatalogOncePerTurn ==
    [][\A u \in Turns :
         /\ (turn[u].pc # "listing" /\ turn'[u].pc = "listing") =>
               turn[u].pc = "new" /\ turn[u].comps = 0 /\ is_connected
         /\ (turn[u].pc = "new" /\ turn'[u].pc # "new") =>
               IF is_connected THEN turn'[u].pc = "listing"
               ELSE /\ turn'[u].pc = "loop" /\ turn'[u].tools = <<>>
                    /\ out' = <<Sys("Not connected to MCP server. Proceeding without tools.")>>
         /\ (turn[u].pc = "listing" /\ turn'[u].pc # "listing") =>
               /\ turn'[u].pc = "loop"
               /\ IF turn[u].res = "ok" /\ turn[u].listed.py = "list"
                     /\ turn[u].listed.items # <<>>
                  THEN /\ turn'[u].tools = format_tools_for_openai(turn[u].listed)
                       /\ turn'[u].tools # <<>>
                       /\ out' = <<>>
                  ELSE /\ turn'[u].tools = <<>>
                       /\ Count(out', Sys("Connected to MCP, but no tools found or error listing tools.")) = 1
         /\ turn[u].pc \notin {"none", "new", "listing"} => turn'[u].tools = turn[u].tools
         /\ turn'[u].comps > turn[u].comps =>
               /\ turn[u].pc = "loop"
               /\ turn'[u].asked = IF turn[u].tools = <<>> THEN PyNone
                                   ELSE PyList(turn[u].tools)
               /\ turn[u].comps >= 1 => turn'[u].asked = turn[u].asked
      ]_vars

\* A turn fetched a catalog while connected and made a second completion call
\* with it after the connection was gone.
C29_Witness ==
    \E u \in Turns :
       /\ turn[u].comps >= 2
       /\ turn[u].asked = PyList(turn[u].tools)
       /\ turn[u].tools # <<>>
       /\ ~is_connected
       /\ Last(messages) = ToolMsg(u, turn[u].it, turn[u].n, "MCP server not connected.")

C32_ToolMessagesAdjacent ==
    \A j \in DOMAIN messages :
       messages[j].role = "tool" =>
          LET i == j - messages[j].k IN
          /\ i >= 1
          /\ messages[i].role = "assistant"
          /\ messages[i].u = messages[j].u /\ messages[i].it = messages[j].it
          /\ \A m \in (i + 1)..(j - 1) :
                /\ messages[m].role = "tool"
                /\ messages[m].u = messages[j].u /\ messages[m].it = messages[j].it

\* C33: while a disconnect() that cancelled lifecycle task t waits for the
\* task to end, is_connected() is false, and no step forwards a call_tool or
\* list_tools request to the session of t.
C33_NoForwardAfterCancel ==
    [][\A d \in Discs :
         (disc[d].pc = "await" /\ ~done(disc[d].on)) =>
            LET t == disc[d].on IN
            /\ ~is_connected
            /\ \A u \in Turns :
                  ~(/\ turn[u].pc \notin {"calling", "listing"}
                    /\ turn'[u].pc \in {"calling", "listing"}
                    /\ turn'[u].on = t)
            /\ \A l \in Listers :
                  ~(/\ lister[l].pc # "listing"
                    /\ lister'[l].pc = "listing"
                    /\ lister'[l].on = t)
      ]_vars

\* C34: a lifecycle task that ends without having been cancelled (launch
\* failure, handshake failure, transport closure, I/O error) has "Disconnected"
\* emitted exactly once for its end, once its done-callback has run.
C34_DisconnectedOnceOnFailure ==
    \A t \in Tasks :
       (done(t) /\ task[t].res = "normal" /\ ~Queued(H("hc", t))) =>
          task[t].emits = 1

\* C35: the step of a turn that reaches a completion call without a client
\* (the settings were applied with an empty key or endpoint after the turn
\* passed preflight) ends the turn: the failure is reported as system output,
\* no tool is invoked, the last emission is the status "Ready", the history
\* is left as it is with the turn's user message in it, and the finished turn
\* makes no further completion call or tool invocation.
C35_ClientLostInTurn ==
    [][\A u \in Turns :
         /\ (/\ turn'[u] # turn[u]
             /\ turn[u].pc = "loop" /\ loop_continues(turn[u].it)
             /\ ~llm) =>
               /\ turn'[u].pc = "done" /\ turn'[u].exit = "exception"
               /\ turn'[u].comps = turn[u].comps + 1
               /\ turn'[u].invs = turn[u].invs
               /\ Count(out', Sys("Error during LLM processing")) = 1
               /\ Count(out', <<"assistant", "content">>) = 0
               /\ Last(out') = Status("Ready")
               /\ messages' = messages
               /\ \E i \in DOMAIN messages' : messages'[i] = UserMsg(u)
               /\ ~Queued(H("turn", u))'
         /\ turn[u].exit = "exception" =>
               /\ turn'[u] = turn[u]
               /\ turn[u].pc = "done"
      ]_vars

\* The client was lost while the turn waited for a tool: its second
\* completion call failed.
C35_Witness ==
    \E u \in Turns :
       /\ turn[u].pc = "done" /\ turn[u].exit = "exception"
       /\ turn[u].comps = 2 /\ turn[u].invs >= 1
       /\ clicks.config = 1 /\ ~llm
       /\ \E i \in DOMAIN messages : messages[i] = UserMsg(u)
       /\ Last(out) = Status("Ready")

====
